---- MODULE Spec2Model ----
(***************************************************************************)
(* Model of OpenSeaData2ODV.py: the SPEC-driven column mapping             *)
(* (transform_one_file), the date composer (date_to_iso), the sheet loop   *)
(* and concatenation of main, and the two-step file write of               *)
(* write_odv_with_header.                                                  *)
(***************************************************************************)
EXTENDS Integers, Sequences, FiniteSets, TLC

VARIABLES spec, pc, sheets, rows, df_out, header_text, outfile, outfile0,
          written, raw, decoded

vars == <<spec, pc, sheets, rows, df_out, header_text, outfile, outfile0,
          written, raw, decoded>>

(***************************************************************************)
(* Bounds of the model.                                                    *)
(***************************************************************************)
\* largest number of rows of one input sheet
MaxRows == 2

(***************************************************************************)
(* Cell values.  A cell is an integer, a string or the missing value       *)
(* (NaN / pd.NA); the three are kept apart by the tag t.                   *)
(***************************************************************************)
NA == [t |-> "na", i |-> 0, s |-> ""]
IntV(n) == [t |-> "int", i |-> n, s |-> ""]
StrV(x) == [t |-> "str", i |-> 0, s |-> x]

isna(v) == v.t = "na"

Digit(d) ==
    CASE d = 0 -> "0" [] d = 1 -> "1" [] d = 2 -> "2" [] d = 3 -> "3"
      [] d = 4 -> "4" [] d = 5 -> "5" [] d = 6 -> "6" [] d = 7 -> "7"
      [] d = 8 -> "8" [] d = 9 -> "9"

RECURSIVE NatToStr(_)
NatToStr(n) == IF n < 10 THEN Digit(n) ELSE NatToStr(n \div 10) \o Digit(n % 10)

\* str(n) of a Python int
IntToStr(n) == IF n < 0 THEN "-" \o NatToStr(-n) ELSE NatToStr(n)

\* .astype(str) / str(value) of one cell
astype_str(v) ==
    CASE v.t = "int" -> IntToStr(v.i)
      [] v.t = "str" -> v.s
      [] v.t = "na"  -> "nan"

\* str.zfill(width): pad with zeros on the left up to width
RECURSIVE zfill(_, _)
zfill(s, width) == IF Len(s) >= width THEN s ELSE zfill("0" \o s, width)

(***************************************************************************)
(* Tables.  A DataFrame is its column labels, in order, and its rows; a    *)
(* row maps each column label to a cell.  The row index is 1..Len(data).   *)
(***************************************************************************)
Cols(df) == {df.columns[k] : k \in DOMAIN df.columns}

Column(df, c) == [k \in DOMAIN df.data |-> df.data[k][c]]

Broadcast(v, df) == [k \in DOMAIN df.data |-> v]

\* pd.DataFrame(index=df_in.index)
EmptyFrame(df_in) == [columns |-> <<>>, data |-> [k \in DOMAIN df_in.data |-> <<>>]]

\* SetColumn with the new label put in front of the existing ones
SetColumn_front(out, out_col, series) ==
    [columns |-> IF out_col \in Cols(out) THEN out.columns
                 ELSE <<out_col>> \o out.columns,
     data    |-> [k \in DOMAIN out.data |-> (out_col :> series[k]) @@ out.data[k]]]

\* out[out_col] = series  (a new label is appended after the existing ones)
SetColumn(out, out_col, series) ==
    [columns |-> IF out_col \in Cols(out) THEN out.columns
                 ELSE Append(out.columns, out_col),
     data    |-> [k \in DOMAIN out.data |-> (out_col :> series[k]) @@ out.data[k]]]

(***************************************************************************)
(* Helper functions of the source.  A call either returns a column or      *)
(* raises; Raise carries the exception's name.                             *)
(***************************************************************************)
Return(series) == [ok |-> TRUE, val |-> series, err |-> ""]
Raise(e) == [ok |-> FALSE, val |-> <<>>, err |-> e]

\* Series.where(cond, other): keep the value where cond holds, else other
where(v, cond, other) == IF cond THEN v ELSE other

fillna(v, fill) == IF isna(v) THEN fill ELSE v

\* TimeSuffix with the missing value filled before the "T" is put in front
TimeSuffix_fill_first(v) == StrV("T" \o astype_str(fillna(v, StrV(""))))

\* one element of xtime when the Time column exists
TimeSuffix(v) == fillna(where(v, isna(v), StrV("T" \o astype_str(v))), StrV(""))

\* xtime, the suffix column
xtime(df) ==
    IF "Time" \in Cols(df)
    THEN [k \in DOMAIN df.data |-> TimeSuffix(df.data[k]["Time"])]
    ELSE Broadcast(StrV(""), df)

\* .astype(int) succeeds on every element of the column
CanInt(df, c) == \A k \in DOMAIN df.data : df.data[k][c].t = "int"

\* the date part of one row
DatePart(r) ==
    IntToStr(r["Year"].i) \o "-" \o zfill(IntToStr(r["Month"].i), 2)
        \o "-" \o zfill(IntToStr(r["Day"].i), 2)

date_to_iso(df) ==
    IF ~({"Year", "Month", "Day"} \subseteq Cols(df)) THEN Raise("KeyError")
    ELSE IF ~(CanInt(df, "Year") /\ CanInt(df, "Month") /\ CanInt(df, "Day"))
    THEN Raise("ValueError")
    ELSE Return([k \in DOMAIN df.data |->
                    StrV(DatePart(df.data[k]) \o xtime(df)[k].s)])

add_station_name(df, sheet_name) == Return(Broadcast(StrV(sheet_name), df))

CallFn(f, df, sheet_name) ==
    CASE f = "date_to_iso" -> date_to_iso(df)
      [] f = "add_station_name" -> add_station_name(df, sheet_name)

(***************************************************************************)
(* The data model SPEC: an ordered mapping from output column to rule.  A  *)
(* rule is a dict; its keys are among "fn", "src", "ref" and "const".      *)
(* Labels are written in ASCII (degC for the degree sign, permille for the *)
(* per-mille sign).                                                        *)
(***************************************************************************)
CRUISE_NAME == "Helgoland_OpenSea"
TYPE_NAME == "B"
SHEET_NAMES == <<"Abiotics Sea", "Abiotics Pool", "Abiotics Harbour">>

Entry(out_col, rule) == [name |-> out_col, rule |-> rule]
Src(c) == [src |-> c]

SPEC ==
    << Entry("Cruise", [const |-> CRUISE_NAME]),
       Entry("Station", [fn |-> "add_station_name"]),
       Entry("Type", [const |-> TYPE_NAME]),
       Entry("yyyy-mm-ddThh:mm", [fn |-> "date_to_iso"]),
       Entry("xlon", Src("Longitude [degrees_east]")),
       Entry("xlat", Src("Latitude [degrees_north]")),
       Entry("time_ISO8601", [ref |-> "yyyy-mm-ddThh:mm"]),
       Entry("Temperature Sea [~^o~#C]", Src("Temperature degC (Sea)")),
       Entry("Temperature Air [~^o~#C]", Src("Temperature degC (Air)")),
       Entry("pH", Src("pH-value")),
       Entry("Practical Salinity", Src("Salinity (permille)")),
       Entry("Wind Speed [m/s]", Src("Wind speed (m/s)")),
       Entry("Illuminance [lux]", Src("Light intensity (lux)")),
       Entry("Secchi depth [m]", Src("Secchi depth (m)")),
       Entry("Euphotic zone (Secchi depth x 2) [m]",
             Src("Euphotic zone (Secchi depth x 2) (m)")),
       Entry("1/2 Secchi depth [m]", Src("1/2 Secchi depth (m)")),
       Entry("Color of Forel-Ule scale at 1/2 Secchi depth",
             Src("Color of Forel-Ule scale at 1/2 Secchi depth")),
       Entry("Time TNW", Src("Time TNW")),
       Entry("Weather", Src("Weather")),
       Entry("Group", Src("Group")),
       Entry("Comment", Src("Comment")),
       Entry("Measurement instrument", Src("Measurement instrument")) >>

(***************************************************************************)
(* transform_one_file: the loop over SPEC and the rule dispatch.           *)
(***************************************************************************)
\* SrcRule without the test for the column: df_in[src]
SrcRule_unguarded(df_in, src) ==
    IF src \in Cols(df_in) THEN Return(Column(df_in, src)) ELSE Raise("KeyError")

\* "src": df_in[src] if src in df_in.columns else pd.NA
SrcRule(df_in, src) ==
    IF src \in Cols(df_in) THEN Return(Column(df_in, src))
    ELSE Return(Broadcast(NA, df_in))

\* RefRule falling back to a missing column, as the "src" rule does
RefRule_fallback(out, ref) ==
    IF ref \in Cols(out) THEN Return(Column(out, ref)) ELSE Return(Broadcast(NA, out))

\* "ref": out[rule["ref"]], a KeyError when out has no such column yet
RefRule(out, ref) ==
    IF ref \in Cols(out) THEN Return(Column(out, ref)) ELSE Raise("KeyError")

\* ApplyRule with the branches in the order const, ref, src, fn
ApplyRule_const_first(out, df_in, rule, sheet_name) ==
    IF "const" \in DOMAIN rule THEN Return(Broadcast(StrV(rule["const"]), df_in))
    ELSE IF "ref" \in DOMAIN rule THEN RefRule(out, rule["ref"])
    ELSE IF "src" \in DOMAIN rule THEN SrcRule(df_in, rule["src"])
    ELSE IF "fn" \in DOMAIN rule THEN CallFn(rule["fn"], df_in, sheet_name)
    ELSE Return(Broadcast(NA, df_in))

\* the if / elif chain over the keys of one rule
ApplyRule(out, df_in, rule, sheet_name) ==
    IF "fn" \in DOMAIN rule THEN CallFn(rule["fn"], df_in, sheet_name)
    ELSE IF "src" \in DOMAIN rule THEN SrcRule(df_in, rule["src"])
    ELSE IF "ref" \in DOMAIN rule THEN RefRule(out, rule["ref"])
    ELSE IF "const" \in DOMAIN rule
         THEN Return(Broadcast(StrV(rule["const"]), df_in))
    ELSE Return(Broadcast(NA, df_in))

\* the loop from entry j on; the first exception leaves the function
RECURSIVE TransformFrom(_, _, _, _, _)
TransformFrom(S, j, out, df_in, sheet_name) ==
    IF j > Len(S) THEN Return(out)
    ELSE LET col == ApplyRule(out, df_in, S[j].rule, sheet_name)
         IN  IF ~col.ok THEN Raise(col.err)
             ELSE TransformFrom(S, j + 1, SetColumn(out, S[j].name, col.val),
                                df_in, sheet_name)

transform_one_file(S, df_in, sheet_name) ==
    TransformFrom(S, 1, EmptyFrame(df_in), df_in, sheet_name)

(***************************************************************************)
(* write_odv_with_header: the text written first, and one line of to_csv.  *)
(* A file is a sequence of pieces: the header's characters one by one,     *)
(* then one piece per line of data.                                        *)
(***************************************************************************)
\* str.rstrip("\n")
RECURSIVE rstrip_nl(_)
rstrip_nl(text) ==
    IF text # <<>> /\ text[Len(text)] = "\n"
    THEN rstrip_nl(SubSeq(text, 1, Len(text) - 1))
    ELSE text

\* HeaderToWrite without the rstrip
HeaderToWrite_raw(text) == text \o <<"\n">>

\* header_text.rstrip("\n") + "\n"
HeaderToWrite(text) == rstrip_nl(text) \o <<"\n">>

\* one field of to_csv: a missing cell is written as the empty field
CsvField(v) == IF isna(v) THEN "" ELSE astype_str(v)

RECURSIVE CsvJoin(_, _, _)
CsvJoin(df, k, c) ==
    IF c > Len(df.columns) THEN "\n"
    ELSE (IF c = 1 THEN "" ELSE "\t") \o CsvField(df.data[k][df.columns[c]])
            \o CsvJoin(df, k, c + 1)

\* the line of row k: fields joined by sep="\t", ended by lineterminator="\n"
CsvLine(df, k) == CsvJoin(df, k, 1)

\* to_csv(header=False): the data lines only, in table order
CsvLines(df) == [k \in DOMAIN df.data |-> CsvLine(df, k)]

(***************************************************************************)
(* main: pd.concat(rows, ignore_index=True)                                *)
(***************************************************************************)
RECURSIVE ConcatData(_, _)
ConcatData(frames, k) ==
    IF k > Len(frames) THEN <<>> ELSE frames[k].data \o ConcatData(frames, k + 1)

\* concat with the frames taken last to first
RECURSIVE ConcatDataRev(_, _)
ConcatDataRev(frames, k) ==
    IF k < 1 THEN <<>> ELSE frames[k].data \o ConcatDataRev(frames, k - 1)

concat_reversed(frames) ==
    [columns |-> frames[1].columns, data |-> ConcatDataRev(frames, Len(frames))]

concat(frames) == [columns |-> frames[1].columns, data |-> ConcatData(frames, 1)]

(***************************************************************************)
(* The environment: the sheets of the workbook, the header template, the   *)
(* previous content of the output file, and the SPEC in force.             *)
(***************************************************************************)
Row(y, m, d, t, w) ==
    [c \in {"Year", "Month", "Day", "Time", "Weather"} |->
        CASE c = "Year" -> y [] c = "Month" -> m [] c = "Day" -> d
          [] c = "Time" -> t [] c = "Weather" -> w]

R1 == Row(IntV(2024), IntV(3), IntV(7), StrV("10:30"), StrV("sunny"))
R2 == Row(IntV(999), IntV(12), IntV(25), NA, NA)
R3 == Row(NA, IntV(1), IntV(1), StrV("08:00"), StrV("fog"))

\* n rows, R1 and R2 in turn, beginning with a
RowsFrom(n, a, b) == [k \in 1..n |-> IF k % 2 = 1 THEN a ELSE b]

ColsA == <<"Year", "Month", "Day", "Time", "Weather">>
ColsB == <<"Weather", "Day", "Month", "Year">>
ColsC == <<"Month", "Day", "Time">>

\* a sheet as read_excel returns it: the rows cut down to the sheet's columns
Sheet(columns, data) ==
    [columns |-> columns,
     data |-> [k \in DOMAIN data |->
                 [c \in {columns[j] : j \in DOMAIN columns} |-> data[k][c]]]]

Sheets ==
    {Sheet(ColsA, RowsFrom(n, R1, R2)) : n \in 0..MaxRows}
      \cup {Sheet(ColsB, RowsFrom(n, R2, R1)) : n \in {0, MaxRows}}
      \cup {Sheet(ColsC, <<R1>>), Sheet(ColsA, <<R3>>)}

Headers ==
    { <<>>, <<"h">>, <<"h", "\n", "h", "\n">>, <<"h", "\n", "\n", "\n">> }

OldFiles == { <<>>, <<"old\n">> }

\* SPEC as edited: the reference placed before the column it names
SPEC_ref_early ==
    << Entry("Cruise", [const |-> CRUISE_NAME]),
       Entry("time_ISO8601", [ref |-> "yyyy-mm-ddThh:mm"]),
       Entry("yyyy-mm-ddThh:mm", [fn |-> "date_to_iso"]) >>

\* SPEC as edited: a reference to a column no entry produces
SPEC_ref_unknown ==
    << Entry("Weather", Src("Weather")),
       Entry("Copy", [ref |-> "weather"]) >>

\* SPEC as edited: rules with several keys, and a rule with none
SPEC_tags ==
    << Entry("A", [fn |-> "add_station_name", src |-> "Weather",
                   ref |-> "Z", const |-> "a"]),
       Entry("B", [src |-> "Weather", ref |-> "Z", const |-> "b"]),
       Entry("C", [src |-> "Wind", ref |-> "A", const |-> "c"]),
       Entry("D", [ref |-> "B", const |-> "d"]),
       Entry("E", [const |-> "e"]),
       Entry("F", <<>>),
       Entry("G", [fn |-> "add_station_name", const |-> "g"]),
       Entry("H", [ref |-> "A"]) >>

\* SPEC as edited: "src" and "const" rules only
SPEC_src_only ==
    << Entry("Weather", Src("Weather")),
       Entry("Wind Speed [m/s]", Src("Wind speed (m/s)")),
       Entry("Time", Src("Time")),
       Entry("Cruise", [const |-> CRUISE_NAME]) >>

SpecConfigs == {SPEC, SPEC_ref_early, SPEC_ref_unknown, SPEC_tags, SPEC_src_only}

NoFrame == [columns |-> <<>>, data |-> <<>>]

(***************************************************************************)
(* The run of main.                                                        *)
(***************************************************************************)
Init ==
    /\ spec \in SpecConfigs
    /\ pc = "loop"
    /\ sheets = <<>>
    /\ rows = <<>>
    /\ df_out = NoFrame
    /\ header_text = <<>>
    /\ outfile0 \in OldFiles
    /\ outfile = outfile0
    /\ written = 0
    /\ raw = 0
    /\ decoded = 0

\* one pass of the for loop: read the sheet, transform it, append the result
ProcessSheet ==
    /\ pc = "loop"
    /\ \E df_in \in Sheets :
         LET name == SHEET_NAMES[Len(sheets) + 1]
             res == transform_one_file(spec, df_in, name)
         IN  /\ sheets' = Append(sheets, df_in)
             /\ IF res.ok
                THEN /\ rows' = Append(rows, res.val)
                     /\ pc' = IF Len(rows') = Len(SHEET_NAMES) THEN "concat" ELSE "loop"
                ELSE /\ rows' = rows
                     /\ pc' = "failed"
    /\ UNCHANGED <<spec, df_out, header_text, outfile, outfile0, written, raw, decoded>>

\* pd.read_excel raises (no workbook, no such sheet)
ReadExcelFails ==
    /\ pc = "loop"
    /\ pc' = "failed"
    /\ UNCHANGED <<spec, sheets, rows, df_out, header_text, outfile, outfile0,
                   written, raw, decoded>>

Concat ==
    /\ pc = "concat"
    /\ df_out' = concat(rows)
    /\ pc' = "read_header"
    /\ UNCHANGED <<spec, sheets, rows, header_text, outfile, outfile0, written,
                   raw, decoded>>

\* header_path.read_text
ReadHeader ==
    /\ pc = "read_header"
    /\ \E text \in Headers : header_text' = text
    /\ pc' = "write_header"
    /\ UNCHANGED <<spec, sheets, rows, df_out, outfile, outfile0, written, raw, decoded>>

ReadHeaderFails ==
    /\ pc = "read_header"
    /\ pc' = "failed"
    /\ UNCHANGED <<spec, sheets, rows, df_out, header_text, outfile, outfile0,
                   written, raw, decoded>>

\* outfile.write_text: the file is replaced by the header
WriteHeader ==
    /\ pc = "write_header"
    /\ outfile' = HeaderToWrite(header_text)
    /\ pc' = "to_csv"
    /\ UNCHANGED <<spec, sheets, rows, df_out, header_text, outfile0, written,
                   raw, decoded>>

\* write_text raises: before the file is opened, or with part of the text out
WriteHeaderFails ==
    /\ pc = "write_header"
    /\ \/ outfile' = outfile
       \/ \E n \in 0..Len(HeaderToWrite(header_text)) :
            outfile' = SubSeq(HeaderToWrite(header_text), 1, n)
    /\ pc' = "failed"
    /\ UNCHANGED <<spec, sheets, rows, df_out, header_text, outfile0, written,
                   raw, decoded>>

\* to_csv(mode="a"): the next data line goes to the end of the file
AppendLine ==
    /\ pc = "to_csv"
    /\ written < Len(df_out.data)
    /\ outfile' = Append(outfile, CsvLines(df_out)[written + 1])
    /\ written' = written + 1
    /\ UNCHANGED <<spec, pc, sheets, rows, df_out, header_text, outfile0, raw, decoded>>

ToCsvDone ==
    /\ pc = "to_csv"
    /\ written = Len(df_out.data)
    /\ pc' = "done"
    /\ UNCHANGED <<spec, sheets, rows, df_out, header_text, outfile, outfile0,
                   written, raw, decoded>>

\* to_csv raises (an I/O error while appending)
ToCsvFails ==
    /\ pc = "to_csv"
    /\ pc' = "failed"
    /\ UNCHANGED <<spec, sheets, rows, df_out, header_text, outfile, outfile0,
                   written, raw, decoded>>

Next ==
    \/ ProcessSheet
    \/ ReadExcelFails
    \/ Concat
    \/ ReadHeader
    \/ ReadHeaderFails
    \/ WriteHeader
    \/ WriteHeaderFails
    \/ AppendLine
    \/ ToCsvDone
    \/ ToCsvFails

Spec == Init /\ [][Next]_vars

(***************************************************************************)
(* The coordinate decoder: packed integer D*1000000 + MMM*1000 + SSS to    *)
(* decimal degrees.  A decoded value is kept exactly, as a whole number of *)
(* 1/3600000 degree: one degree is 3600000 units, a thousandth of a        *)
(* minute 60 units, a thousandth of a second 1 unit.                       *)
(***************************************************************************)
FloatV(n) == [t |-> "float", i |-> n, s |-> ""]

\* decode with the minutes added as degrees (the division by 60 left out)
decode_minutes_as_degrees(v) ==
    IF isna(v) THEN NA
    ELSE LET sign == IF v.i < 0 THEN -1 ELSE 1
             x == IF v.i < 0 THEN -v.i ELSE v.i
             deg == x \div 1000000
             mmm == (x \div 1000) % 1000
             sss == x % 1000
         IN  FloatV(sign * (deg * 3600000 + (mmm * 60) * 3600 + sss * 60))

decode(v) ==
    IF isna(v) THEN NA
    ELSE LET sign == IF v.i < 0 THEN -1 ELSE 1
             x == IF v.i < 0 THEN -v.i ELSE v.i
             deg == x \div 1000000
             mmm == (x \div 1000) % 1000
             sss == x % 1000
             \* mmm * 60.0 / 1000.0, in thousandths of a minute
             minutes == mmm * 60
             \* sss * 60.0 / 1000.0, in thousandths of a second
             seconds == sss * 60
         IN  \* sign * (deg + minutes/60.0 + seconds/3600.0)
             FloatV(sign * (deg * 3600000 + minutes * 60 + seconds))

Pack(sign, deg, mmm, sss) == IntV(sign * (deg * 1000000 + mmm * 1000 + sss))

Degrees == {0, 1, 52, 179, 180}
Thousandths == {0, 1, 301, 500, 940, 999}

RawInputs ==
    {Pack(sg, d, m, x) : sg \in {-1, 1}, d \in Degrees, m \in Thousandths,
                         x \in Thousandths} \cup {NA}

InitDecode ==
    /\ spec = SPEC
    /\ pc = "decode"
    /\ sheets = <<>>
    /\ rows = <<>>
    /\ df_out = NoFrame
    /\ header_text = <<>>
    /\ outfile0 = <<>>
    /\ outfile = <<>>
    /\ written = 0
    /\ raw \in RawInputs
    /\ decoded = NA

Decode ==
    /\ pc = "decode"
    /\ decoded' = decode(raw)
    /\ pc' = "decoded"
    /\ UNCHANGED <<spec, sheets, rows, df_out, header_text, outfile, outfile0,
                   written, raw>>

NextDecode == Decode

SpecDecode == InitDecode /\ [][NextDecode]_vars

(***************************************************************************)
(* Properties.  Unit k of a run is the sheet sheets[k], read under the     *)
(* name SHEET_NAMES[k]; rows[k] is the table transform_one_file returned   *)
(* for it.                                                                 *)
(***************************************************************************)
OutputNames == [j \in DOMAIN spec |-> spec[j].name]

\* C1: every table transform_one_file returned has exactly the output names
\* of SPEC as its columns, in SPEC order, whatever the columns of the input
\* and their order, and as many rows as its input table (none included).
C1_ColumnsAndRowCount ==
    \A k \in DOMAIN rows :
        /\ rows[k].columns = OutputNames
        /\ Len(rows[k].data) = Len(sheets[k].data)
        /\ \A r \in DOMAIN rows[k].data :
              DOMAIN rows[k].data[r] = {spec[j].name : j \in DOMAIN spec}

\* three units done under the full SPEC: one with reordered columns and no
\* rows, one with the largest row count
C1_Witness ==
    /\ spec = SPEC
    /\ Len(rows) = Len(SHEET_NAMES)
    /\ \E k \in DOMAIN rows :
          sheets[k].columns = ColsB /\ Len(sheets[k].data) = 0
    /\ \E k \in DOMAIN rows :
          sheets[k].columns = ColsA /\ Len(rows[k].data) = MaxRows

\* C2: for a "src" entry the output column equals the named input column row
\* for row when the input has it, and is Missing in every row when the input
\* lacks it; a SPEC of "src" and "const" entries never fails on a sheet.
C2_SourceCopyOrMissing ==
    /\ \A k \in DOMAIN rows : \A j \in DOMAIN spec :
          DOMAIN spec[j].rule = {"src"} =>
              \A r \in DOMAIN rows[k].data :
                  rows[k].data[r][spec[j].name] =
                      IF spec[j].rule.src \in Cols(sheets[k])
                      THEN sheets[k].data[r][spec[j].rule.src]
                      ELSE NA
    /\ (\A j \in DOMAIN spec : DOMAIN spec[j].rule \in {{"src"}, {"const"}})
          => Len(rows) = Len(sheets)

\* a unit with rows that lacks the Time and the wind column, transformed
\* under a SPEC that names both as sources
C2_Witness ==
    /\ spec = SPEC_src_only
    /\ \E k \in DOMAIN rows :
          /\ sheets[k].columns = ColsB
          /\ Len(rows[k].data) >= 1
          /\ rows[k].data[1]["Time"] = NA
          /\ rows[k].data[1]["Weather"] = sheets[k].data[1]["Weather"]

\* C3: for a "ref" entry whose target an earlier entry produces, the column
\* equals the target's column row for row; when no earlier entry produces
\* the target, no table is ever returned and the first unit ends the run
\* with an error.
C3_ReferenceOrFatal ==
    \A j \in DOMAIN spec :
        DOMAIN spec[j].rule = {"ref"} =>
            IF \E i \in 1..(j - 1) : spec[i].name = spec[j].rule.ref
            THEN \A k \in DOMAIN rows : \A r \in DOMAIN rows[k].data :
                    rows[k].data[r][spec[j].name] = rows[k].data[r][spec[j].rule.ref]
            ELSE /\ rows = <<>>
                 /\ sheets # <<>> => (pc = "failed" /\ Len(sheets) = 1)

\* the reference comes before its target; the sheet has every date column
C3_Witness ==
    /\ spec = SPEC_ref_early
    /\ pc = "failed"
    /\ Len(sheets) = 1
    /\ sheets[1].columns = ColsA
    /\ Len(sheets[1].data) >= 1
    /\ sheets[1].data[1]["Year"].t = "int"
    /\ rows = <<>>

\* the suffix C4 states for row r of a sheet
C4_Suffix(df, r) ==
    IF "Time" \in Cols(df)
    THEN IF df.data[r]["Time"] = NA THEN ""
         ELSE "T" \o astype_str(df.data[r]["Time"])
    ELSE ""

\* C4: in every column date_to_iso produced, the text after the date part is
\* "T" and the time's string when the sheet has a Time column and the row's
\* time is present, empty when the row's time is missing, and empty in every
\* row when the sheet has no Time column.
C4_TimeSuffix ==
    \A k \in DOMAIN rows : \A j \in DOMAIN spec :
        DOMAIN spec[j].rule = {"fn"} /\ spec[j].rule.fn = "date_to_iso" =>
            \A r \in DOMAIN rows[k].data :
                rows[k].data[r][spec[j].name] =
                    StrV(DatePart(sheets[k].data[r]) \o C4_Suffix(sheets[k], r))

\* one unit with a present and a missing time, one unit with no Time column
C4_Witness ==
    /\ spec = SPEC
    /\ \E k \in DOMAIN rows :
          /\ sheets[k].columns = ColsA
          /\ Len(sheets[k].data) >= 2
          /\ sheets[k].data[1]["Time"] # NA
          /\ sheets[k].data[2]["Time"] = NA
          /\ rows[k].data[1]["yyyy-mm-ddThh:mm"] = StrV("2024-03-07T10:30")
    /\ \E k \in DOMAIN rows :
          "Time" \notin Cols(sheets[k]) /\ Len(sheets[k].data) >= 1

\* "{n:0wd}" of a non-negative n
C5_Padded(n, w) == zfill(NatToStr(n), w)

\* C5: in every column date_to_iso produced, the date part is the year padded
\* with zeros to 4 digits, "-", the month padded to 2, "-", the day padded
\* to 2, for every year, those below 1000 included.
C5_DatePartPadded ==
    \A k \in DOMAIN rows : \A j \in DOMAIN spec :
        DOMAIN spec[j].rule = {"fn"} /\ spec[j].rule.fn = "date_to_iso" =>
            \A r \in DOMAIN rows[k].data :
                rows[k].data[r][spec[j].name] =
                    StrV(C5_Padded(sheets[k].data[r]["Year"].i, 4) \o "-"
                         \o C5_Padded(sheets[k].data[r]["Month"].i, 2) \o "-"
                         \o C5_Padded(sheets[k].data[r]["Day"].i, 2)
                         \o xtime(sheets[k])[r].s)

\* the number of rows of the units before unit k
RECURSIVE RowsBefore(_)
RowsBefore(k) == IF k <= 1 THEN 0 ELSE RowsBefore(k - 1) + Len(sheets[k - 1].data)

Concatenated == pc \in {"read_header", "write_header", "to_csv", "done"}

\* C6: the concatenated table has as many rows as the units together, and
\* row r of unit k is its row number (rows of the units before k) + r: the
\* units in input order, the rows of a unit in their order.
C6_ConcatOrder ==
    Concatenated =>
        /\ Len(df_out.data) = RowsBefore(Len(sheets) + 1)
        /\ \A k \in DOMAIN rows : \A r \in DOMAIN rows[k].data :
              df_out.data[RowsBefore(k) + r] = rows[k].data[r]

\* two rows, then one, then two, the first units differing in their rows
C6_Witness ==
    /\ Concatenated
    /\ spec = SPEC
    /\ Len(sheets[1].data) = 2
    /\ Len(sheets[2].data) = 1
    /\ Len(sheets[3].data) = 2
    /\ rows[1].data[1] # rows[2].data[1]
    /\ df_out.data[3] = rows[2].data[1]

\* the header without the newlines at its end
HeaderCore ==
    SubSeq(header_text, 1,
           CHOOSE n \in 0..Len(header_text) :
               /\ n = 0 \/ header_text[n] # "\n"
               /\ \A m \in (n + 1)..Len(header_text) : header_text[m] = "\n")

CompleteOutput == HeaderToWrite(header_text) \o CsvLines(df_out)

\* C8: a run that fails leaves the output file as it was before the run or
\* holding the complete output, never the header alone or part of the rows.
C8_AtomicOutput ==
    pc = "failed" =>
        \/ outfile = outfile0
        \/ df_out # NoFrame /\ outfile = CompleteOutput

Abs(n) == IF n < 0 THEN -n ELSE n

\* C9 as stated: no packed integer with 0 <= deg <= 180, 0 <= mmm < 1000 and
\* 0 <= sss < 1000 decodes to an absolute value above 181 degrees.
C9_AtMost181 ==
    (pc = "decoded" /\ ~isna(raw)) => Abs(decoded.i) <= 181 * 3600000

\* C9 as amended: no such packed integer decodes to an absolute value above
\* 181.02 degrees; a missing input decodes to the missing value.
C9_AtMost181_02 ==
    pc = "decoded" =>
        IF isna(raw) THEN decoded = NA
        ELSE decoded.t = "float" /\ Abs(decoded.i) <= 18102 * 36000

\* deg = 180, mmm = 999, sss = 999 decodes to 181.01565 degrees
C9_Witness ==
    /\ pc = "decoded"
    /\ raw = Pack(1, 180, 999, 999)
    /\ decoded = FloatV(651656340)

\* the cell C10 states for row r of unit k under entry j
C10_Cell(k, j, r) ==
    LET rule == spec[j].rule
        keys == DOMAIN rule
    IN  IF "fn" \in keys
        THEN IF rule.fn = "add_station_name" THEN StrV(SHEET_NAMES[k])
             ELSE date_to_iso(sheets[k]).val[r]
        ELSE IF "src" \in keys
        THEN IF rule.src \in Cols(sheets[k]) THEN sheets[k].data[r][rule.src] ELSE NA
        ELSE IF "ref" \in keys THEN rows[k].data[r][rule.ref]
        ELSE IF "const" \in keys THEN StrV(rule.const)
        ELSE NA

\* C10: each entry is handled by the first of fn, src, ref, const its rule
\* carries, the other keys being ignored, and an entry with none of the four
\* gives a column of Missing; such a SPEC raises no error.
C10_RulePrecedence ==
    /\ \A k \in DOMAIN rows : \A j \in DOMAIN spec : \A r \in DOMAIN rows[k].data :
          rows[k].data[r][spec[j].name] = C10_Cell(k, j, r)
    /\ spec = SPEC_tags => Len(rows) = Len(sheets)

\* a unit with a weather value, under the SPEC whose rules carry several
\* keys: fn wins over src, src over ref, ref over const, no key gives Missing
C10_Witness ==
    /\ spec = SPEC_tags
    /\ \E k \in DOMAIN rows :
          /\ Len(rows[k].data) >= 1
          /\ sheets[k].columns = ColsA
          /\ sheets[k].data[1]["Weather"] = StrV("sunny")
          /\ rows[k].data[1]["A"] = StrV(SHEET_NAMES[k])
          /\ rows[k].data[1]["B"] = StrV("sunny")
          /\ rows[k].data[1]["C"] = NA
          /\ rows[k].data[1]["D"] = StrV("sunny")
          /\ rows[k].data[1]["F"] = NA

====
